---- MODULE Spec2Model ----
(***************************************************************************)
(* A model of the segment-timed media assembly pipeline:                   *)
(*   video_fetcher.get_clips_for_script  (segmentation, parallel fetch,    *)
(*                                        gap-filling)            Spec     *)
(*   video_fetcher._download_file        (temp file and rename)   SpecDownload*)
(*   video_engine.render_final_video     (prepare, concatenate, reconcile, *)
(*                                        encode, cleanup)        SpecRender*)
(*   video_engine, the subtitles overlay (timing file, overlays,           *)
(*                                        composite)              SpecCaptions*)
(*   tts_cli.main                        (fallback word timing)   SpecTiming*)
(* Each specification runs one function and holds the state of the others  *)
(* fixed.  Strings are sequences of one-character strings.  Durations are  *)
(* exact rationals, kept as numerators over a common denominator           *)
(* (sent_words * total_duration over total_words, len(w) * total_duration  *)
(* over total_chars), so floating-point rounding is not part of the model. *)
(* get_clips_for_script is modelled in remote mode (use_local_backgrounds  *)
(* False).  Clips are modelled by their durations and their file handles,  *)
(* files by their state and the order of their modification times.  The    *)
(* subtitles overlay, which leaves final_video as it is, is modelled on its*)
(* own and is not a step of SpecRender.                                    *)
(***************************************************************************)
EXTENDS Integers, Sequences, FiniteSets, TLC

\* ------------------------------------------------------------------ bounds
\* longest script enumerated character by character
MaxScriptLen == 5
\* most sentences in a script built from whole sentences
MaxSentences == 5

\* ------------------------------------------------------------- text helpers
\* characters of the enumerated scripts: a word character, a sentence
\* terminator, a blank and a newline
Alphabet == {"a", ".", " ", "\n"}

\* Python's \s and str.split() whitespace, restricted to the alphabet
IsSpace(c) == c \in {" ", "\n"}

\* the lookbehind class [.!?] of the split pattern
IsTerminal(c) == c \in {".", "!", "?"}

\* script.replace("\n", " ")
ReplaceNewlines(s) == [i \in 1..Len(s) |-> IF s[i] = "\n" THEN " " ELSE s[i]]

RECURSIVE LStrip(_)
LStrip(s) == IF s # <<>> /\ IsSpace(Head(s)) THEN LStrip(Tail(s)) ELSE s

RECURSIVE RStrip(_)
RStrip(s) ==
    IF s # <<>> /\ IsSpace(s[Len(s)]) THEN RStrip(SubSeq(s, 1, Len(s) - 1)) ELSE s

\* str.strip()
Strip(s) == LStrip(RStrip(s))

\* len(s.split()): the number of maximal runs of non-whitespace characters
WordCount(s) ==
    Cardinality({i \in 1..Len(s) :
        ~IsSpace(s[i]) /\ (i = 1 \/ IsSpace(s[i - 1]))})

\* the k-th element of a set of positions, in increasing order
Nth(S, k) == CHOOSE i \in S : Cardinality({j \in S : j <= i}) = k

\* re.split(r'(?<=[.!?])\s+', s): a separator is a maximal run of whitespace
\* that starts right after a terminal character. Where the separators start:
SepStarts(s) == {i \in 2..Len(s) : IsSpace(s[i]) /\ IsTerminal(s[i - 1])}

\* where the separator that starts at i ends
SepEnd(s, i) ==
    CHOOSE k \in i..Len(s) :
        /\ \A m \in i..k : IsSpace(s[m])
        /\ (k = Len(s) \/ ~IsSpace(s[k + 1]))

\* the pieces between the separators (the last one is empty when s ends with
\* a separator)
ReSplit(s) ==
    LET starts == SepStarts(s)
        n == Cardinality(starts)
    IN  [k \in 1..(n + 1) |->
            SubSeq(s,
                   IF k = 1 THEN 1 ELSE SepEnd(s, Nth(starts, k - 1)) + 1,
                   IF k = n + 1 THEN Len(s) ELSE Nth(starts, k) - 1)]

\* " ".join(parts)
RECURSIVE JoinSpace(_)
JoinSpace(parts) ==
    IF parts = <<>> THEN <<>>
    ELSE IF Len(parts) = 1 THEN parts[1]
    ELSE parts[1] \o <<" ">> \o JoinSpace(Tail(parts))

RECURSIVE SelectSeqLong(_)
SelectSeqLong(pieces) ==
    IF pieces = <<>> THEN <<>>
    ELSE (IF Len(Strip(Head(pieces))) > 2 THEN <<Strip(Head(pieces))>> ELSE <<>>)
         \o SelectSeqLong(Tail(pieces))

\* --------------------------------------------------------------- constants
\* target seconds of narration per clip
SegmentSeconds == 8
\* words per second assumed when total_duration is not positive
DefaultWordsPerSec == 3
\* max_workers of the ThreadPoolExecutor
MaxWorkers == 3

\* where the words of s begin and end: the ends of the maximal runs of
\* non-whitespace characters
WordStarts(s) == {i \in 1..Len(s) : ~IsSpace(s[i]) /\ (i = 1 \/ IsSpace(s[i - 1]))}
WordEnds(s) == {i \in 1..Len(s) : ~IsSpace(s[i]) /\ (i = Len(s) \/ IsSpace(s[i + 1]))}

\* s.split()
Words(s) ==
    [k \in 1..Cardinality(WordStarts(s)) |->
        SubSeq(s, Nth(WordStarts(s), k), Nth(WordEnds(s), k))]

\* the first n elements of q
Take(q, n) == SubSeq(q, 1, IF Len(q) < n THEN Len(q) ELSE n)

\* words of the segment that go into the search keyword
SnippetWords == 2

\* snippet = " ".join(text.split()[:2])
Snippet(segment) == JoinSpace(Take(Words(segment), SnippetWords))

\* keyword = f"{base_keyword} {snippet}".strip()
Keyword(base, segment) == Strip(base \o <<" ">> \o Snippet(segment))

\* ------------------------------------------------------------ segmentation
\* script.replace("\n", " ").strip()
ScriptClean(script) == Strip(ReplaceNewlines(script))

\* variant: the retained sentences, with no fallback
SentencesNoFallback(script) == SelectSeqLong(ReSplit(ScriptClean(script)))

\* the retained sentences, with the whole-script and "..." fallbacks
Sentences(script) ==
    LET kept == SelectSeqLong(ReSplit(ScriptClean(script)))
    IN  IF kept # <<>> THEN kept
        ELSE IF ScriptClean(script) # <<>> THEN <<ScriptClean(script)>>
        ELSE << <<".", ".", ".">> >>

\* total_words = max(len(script.split()), 1)
TotalWords(script) ==
    IF WordCount(script) > 1 THEN WordCount(script) ELSE 1

\* variant: every sentence closes its group
ReachedTargetAlways(curr_words, script, td) == TRUE

\* curr_words >= target_segment_words, where target_segment_words is
\* (total_words / total_duration) * 8, or 3 * 8 when total_duration <= 0
ReachedTarget(curr_words, script, td) ==
    IF td > 0
    THEN curr_words * td >= TotalWords(script) * SegmentSeconds
    ELSE curr_words >= DefaultWordsPerSec * SegmentSeconds

\* the grouping loop and the handling of the trailing group
RECURSIVE GroupFrom(_, _, _, _, _, _, _)
GroupFrom(sents, k, segs, curr_seg, curr_words, script, td) ==
    IF k > Len(sents)
    THEN IF curr_seg # <<>>
         THEN IF segs # <<>>
              THEN [segs EXCEPT ![Len(segs)] = @ \o <<" ">> \o JoinSpace(curr_seg)]
              ELSE Append(segs, JoinSpace(curr_seg))
         ELSE segs
    ELSE LET seg2 == Append(curr_seg, sents[k])
             w2 == curr_words + WordCount(sents[k])
         IN  IF ReachedTarget(w2, script, td)
             THEN GroupFrom(sents, k + 1, Append(segs, JoinSpace(seg2)), <<>>, 0,
                            script, td)
             ELSE GroupFrom(sents, k + 1, segs, seg2, w2, script, td)

Segments(script, td) == GroupFrom(Sentences(script), 1, <<>>, <<>>, 0, script, td)

\* sent_duration = (sent_words / total_words) * total_duration, as the
\* numerator over the denominator DurationDen(script)
SentDuration(text, script, td) == WordCount(text) * td

DurationDen(script) == TotalWords(script)

\* ------------------------------------------------------------------- state
VARIABLES
    script,          \* get_clips_for_script: the script argument
    total_duration,  \* get_clips_for_script: the total_duration argument
    pc,              \* position in get_clips_for_script
    segments,        \* the list `segments`
    task,            \* per submitted fetch_clip call: queued, search, download, done
    futures,         \* per submitted call: the dict fetch_clip returned
    completed,       \* the python indices of the calls, in the order they finished
    results,         \* the list `results`
    fill_i,          \* position of the gap-filling loop (next entry, from 1)
    clips_metadata,  \* the list `clips_metadata`
    generic,         \* the generic "nature" fetches of gap-filling, in call order
    base_keyword,    \* get_clips_for_script: the base_keyword argument
    calls            \* per submitted call: the keyword of its search, and how
                     \* often its current (or last) request has been attempted

fetchVars == <<script, total_duration, pc, segments, task, futures, completed,
               results, fill_i, clips_metadata, generic, base_keyword, calls>>

VARIABLES
    rpc,             \* position in render_final_video ("idle": no call running)
    clock,           \* int(time.time()), in seconds
    files,           \* the files at the output paths: state and modification time
    renders,         \* calls of render_final_video made so far
    video_source,    \* render_final_video: the video_source argument
    output_path,     \* render_final_video: output_path after defaulting
    audio_clip,      \* whether audio_clip is set (not None)
    audio_duration,  \* audio_clip.duration
    video_clips,     \* the list `video_clips`
    clips_to_close,  \* the list `clips_to_close`
    final_duration,  \* final_video.duration
    open,            \* the media handles the current or last call opened and
                     \* has not closed
    outcome,         \* how the last call ended: "none", "returned", "raised"
    cleanup_log      \* what _cleanup_old_videos logged in the current or last
                     \* call: the files removed, and whether it failed

renderVars == <<rpc, clock, files, renders, video_source, output_path, audio_clip,
                audio_duration, video_clips, clips_to_close, final_duration, open,
                outcome, cleanup_log>>

VARIABLES
    dl_pc,           \* position in _download_file
    dl_body,         \* the chunks dl_resp.iter_content gives, in order
    dl_next,         \* the next chunk of dl_body to be given (from 1)
    disk,            \* the content of the files at output_path and tmp_path
    dl_before        \* what was at output_path when _download_file was entered

dlVars == <<dl_pc, dl_body, dl_next, disk, dl_before>>

VARIABLES
    cap_pc,          \* position in the subtitles overlay of render_final_video
    subtitles,       \* what subtitles_path names: nothing, or a timing file
    cap_base,        \* final_video.duration, the audio duration
    use_textclip,    \* _generate_subtitle_clips: use_textclip
    sub_i,           \* the next item of word_data in the loop (from 1)
    subtitle_clips,  \* the list `subtitle_clips`
    final_clip       \* render_final_video: final_clip

capVars == <<cap_pc, subtitles, cap_base, use_textclip, sub_i, subtitle_clips,
             final_clip>>

VARIABLES
    tts_pc,          \* position in main of tts_cli
    tts_text,        \* tts_cli: text
    events,          \* the WordBoundary events communicate.stream() delivered
    total_seconds,   \* tts_cli: total_duration, the length of the audio
    words,           \* tts_cli: words
    current_time,    \* tts_cli: current_time
    word_boundaries  \* tts_cli: word_boundaries

ttsVars == <<tts_pc, tts_text, events, total_seconds, words, current_time,
             word_boundaries>>

VARIABLES
    generates,        \* Generate clicks with a valid form made so far
    audio_file,       \* the narration AUDIO_DIR/tts_output.mp3 holds: the click
                      \* that made it, 0 when there is no file
    audio_path,       \* st.session_state.audio_path is set (not None)
    last_script,      \* st.session_state.last_script and last_title: the
                      \* click whose form they hold, 0 when empty
    video_path,       \* st.session_state.video_path: the click whose script
                      \* the stored clips were fetched for, 0 when None
    final_video_path  \* st.session_state.final_video_path: what the render it
                      \* names was made from, or NoVideo

sessVars == <<generates, audio_file, audio_path, last_script, video_path,
              final_video_path>>

vars == <<fetchVars, renderVars, dlVars, capVars, ttsVars, sessVars>>

\* what an action of one function leaves alone: the state of the others
exceptFetch == <<renderVars, dlVars, capVars, ttsVars, sessVars>>
exceptRender == <<fetchVars, dlVars, capVars, ttsVars, sessVars>>
exceptDownload == <<fetchVars, renderVars, capVars, ttsVars, sessVars>>
exceptCaptions == <<fetchVars, renderVars, dlVars, ttsVars, sessVars>>
exceptTiming == <<fetchVars, renderVars, dlVars, capVars, sessVars>>
exceptSession == <<fetchVars, renderVars, dlVars, capVars, ttsVars>>

\* --------------------------------------------------------------- the inputs
RECURSIVE StringsOfLen(_)
StringsOfLen(n) ==
    IF n = 0 THEN {<<>>}
    ELSE {Append(s, c) : s \in StringsOfLen(n - 1), c \in Alphabet}

\* every script of at most MaxScriptLen characters
ShortScripts == UNION {StringsOfLen(n) : n \in 0..MaxScriptLen}

\* a sentence of one word and a sentence of two words
OneWordSentence == <<"a", "a", ".">>
TwoWordSentence == <<"a", " ", "a", "!">>

\* n sentences, alternately of one and of two words
RECURSIVE SentenceList(_, _)
SentenceList(n, first) ==
    IF n = 0 THEN <<>>
    ELSE <<first>> \o SentenceList(n - 1,
             IF first = OneWordSentence THEN TwoWordSentence ELSE OneWordSentence)

\* scripts of 2..MaxSentences whole sentences, separated by one blank
SentenceScripts ==
    {JoinSpace(SentenceList(n, first)) :
        n \in 2..MaxSentences, first \in {OneWordSentence, TwoWordSentence}}

Scripts == ShortScripts \cup SentenceScripts

\* a sentence of as many one-letter words as the default rate of speech (the
\* rate of a narration without length) gives a segment
LongSentence ==
    [i \in 1..(2 * DefaultWordsPerSec * SegmentSeconds) |->
        IF i = 2 * DefaultWordsPerSec * SegmentSeconds THEN "."
        ELSE IF i % 2 = 1 THEN "a" ELSE " "]

\* a script long enough for several segments at that rate
LongScript == JoinSpace(<<LongSentence, LongSentence, OneWordSentence>>)

\* the length in seconds of its narration, at about the default rate
LongDuration == 17

\* narration lengths in seconds: none, short (one segment), long (one segment
\* per sentence)
Durations == {0, 1, 2 * SegmentSeconds * MaxSentences}

\* ------------------------------------------------------------------ values
\* "path": None
NoPath == <<>>

\* str((VIDEO_DIR / f"clip_{i:03d}.mp4").resolve()), i the python index
ClipPath(i) == <<"clip", i>>

NoResult == [path |-> NoPath, duration |-> 0, index |-> -1]

\* the base keywords tried: none, and one word
BaseKeywords == {<<>>, <<"b">>}

\* a call that has not started
NoCall == [keyword |-> <<>>, attempts |-> 0]

NumSegments == Len(segments)

\* variant: the pool starts a call whatever the number of running calls
NoneRunning == {}

\* the calls a worker thread is running
Running == {k \in DOMAIN task : task[k] \in {"search", "download"}}

\* --------------------------------------------------------------------- Init
\* no call of get_clips_for_script is made
FetchOff ==
    /\ script = <<>>
    /\ total_duration = 0
    /\ pc = "off"
    /\ segments = <<>>
    /\ task = <<>>
    /\ futures = <<>>
    /\ completed = <<>>
    /\ results = <<>>
    /\ fill_i = 1
    /\ clips_metadata = <<>>
    /\ generic = <<>>
    /\ base_keyword = <<>>
    /\ calls = <<>>

\* a call of get_clips_for_script (remote mode) is entered
FetchInit ==
    /\ \/ script \in Scripts /\ total_duration \in Durations
       \/ script = LongScript /\ total_duration \in {0, LongDuration}
    /\ pc = "split"
    /\ segments = <<>>
    /\ task = <<>>
    /\ futures = <<>>
    /\ completed = <<>>
    /\ results = <<>>
    /\ fill_i = 1
    /\ clips_metadata = <<>>
    /\ generic = <<>>
    /\ base_keyword \in BaseKeywords
    /\ calls = <<>>

\* ------------------------------------------------------------------ actions
\* lines 94-121, and the submission of one fetch_clip call per segment by
\* executor.map
SplitScript ==
    /\ pc = "split"
    /\ segments' = Segments(script, total_duration)
    /\ task' = [k \in 1..Len(segments') |-> "queued"]
    /\ futures' = [k \in 1..Len(segments') |-> NoResult]
    /\ calls' = [k \in 1..Len(segments') |-> NoCall]
    /\ pc' = "fetch"
    /\ UNCHANGED <<base_keyword, script, total_duration, completed, results, fill_i, clips_metadata,
                   generic>>

\* a free worker takes the oldest queued call and runs fetch_clip up to the
\* search request of get_background_video
TaskStart(k) ==
    /\ pc = "fetch"
    /\ task[k] = "queued"
    /\ \A j \in 1..(k - 1) : task[j] # "queued"
    /\ Cardinality(Running) < MaxWorkers
    /\ task' = [task EXCEPT ![k] = "search"]
    /\ calls' = [calls EXCEPT ![k] = [keyword |-> Keyword(base_keyword, segments[k]),
                                      attempts |-> 1]]
    /\ UNCHANGED <<base_keyword, script, total_duration, pc, segments, futures, completed,
                   results, fill_i, clips_metadata, generic>>

\* what fetch_clip returns for segment k: its own duration and index, and the
\* path of its own file or None
FetchResult(k, ok) ==
    [path |-> IF ok THEN ClipPath(k - 1) ELSE NoPath,
     duration |-> SentDuration(segments[k], script, total_duration),
     index |-> k - 1]

\* variant: a call whose request failed goes back to its search request
TaskRetry(k, ok) ==
    /\ task' = [task EXCEPT ![k] = IF ok THEN "done" ELSE "search"]
    /\ futures' = IF ok THEN [futures EXCEPT ![k] = FetchResult(k, ok)] ELSE futures
    /\ completed' = IF ok THEN Append(completed, k - 1) ELSE completed
    /\ calls' = IF ok THEN calls ELSE [calls EXCEPT ![k].attempts = 2]
    /\ UNCHANGED <<base_keyword, script, total_duration, pc, segments, results, fill_i,
                   clips_metadata, generic>>

\* the call ends: its result is the future's, whatever the outcome
TaskFinish(k, ok) ==
    /\ task' = [task EXCEPT ![k] = "done"]
    /\ futures' = [futures EXCEPT ![k] = FetchResult(k, ok)]
    /\ completed' = Append(completed, k - 1)
    /\ UNCHANGED <<base_keyword, calls, script, total_duration, pc, segments, results, fill_i,
                   clips_metadata, generic>>

\* the search request: a failure (no key, HTTP error, no video, no MP4) is
\* caught by fetch_clip, which returns path None
TaskSearch(k) ==
    /\ pc = "fetch"
    /\ task[k] = "search"
    /\ \/ /\ task' = [task EXCEPT ![k] = "download"]
          /\ UNCHANGED <<base_keyword, calls, script, total_duration, pc, segments, futures, completed,
                         results, fill_i, clips_metadata, generic>>
       \/ TaskFinish(k, FALSE)

\* _download_file: the file is in place, or the exception is caught
TaskDownload(k) ==
    /\ pc = "fetch"
    /\ task[k] = "download"
    /\ \/ TaskFinish(k, TRUE)
       \/ TaskFinish(k, FALSE)

\* variant: the sort is descending (reverse=True)
SortKeyGE(a, b) == a.index >= b.index

\* results.sort(key=lambda r: r["index"]): the order of the keys
SortKeyLE(a, b) == a.index <= b.index

\* the position of l[i] after the sort: after the entries that come before it
\* by the key, and after the earlier entries of the same key (the sort is
\* stable)
SortedPosition(l, i) ==
    Cardinality({j \in DOMAIN l :
        \/ ~SortKeyLE(l[i], l[j])
        \/ SortKeyLE(l[j], l[i]) /\ j <= i})

SortByIndex(l) ==
    [k \in DOMAIN l |-> l[CHOOSE i \in DOMAIN l : SortedPosition(l, i) = k]]

\* list(executor.map(...)): the results in the order of the submitted calls,
\* whatever the order the calls finished in
MapResults == [k \in 1..NumSegments |-> futures[k]]

\* leaving the `with` block (all calls done), then the sort
Collect ==
    /\ pc = "fetch"
    /\ \A k \in DOMAIN task : task[k] = "done"
    /\ results' = SortByIndex(MapResults)
    /\ fill_i' = 1
    /\ pc' = "fill"
    /\ UNCHANGED <<base_keyword, calls, script, total_duration, segments, task, futures, completed,
                   clips_metadata, generic>>

\* variant: the entry before is never looked at
HasNeighbourNever(res, i) == FALSE

\* results[i-1]["path"] is set (the first entry has no entry before it)
HasNeighbour(res, i) == i > 1 /\ res[i - 1].path # NoPath

\* variant: the path of the first entry is copied, not that of the entry before
CopyNeighbourFirst(res, i) == [res EXCEPT ![i].path = res[1].path]

\* variant: the whole dict of the entry before is copied, duration included
CopyNeighbourWhole(res, i) == [res EXCEPT ![i] = res[i - 1]]

\* res["path"] = results[i-1]["path"]: only the path is copied
CopyNeighbour(res, i) == [res EXCEPT ![i].path = res[i - 1].path]

\* res["path"] = get_background_video("nature", ..., output_path=clip_<i>),
\* which returns the entry's own clip path
TakeGeneric(res, i) == [res EXCEPT ![i].path = ClipPath(i - 1)]

\* clips_metadata.append({"path": res["path"], "duration": res["duration"]})
AppendEntry(meta, res) == Append(meta, [path |-> res.path, duration |-> res.duration])

\* one iteration of the gap-filling loop on entry fill_i, by case.
\* The entry has a path: it is appended as it is.
FillKeep ==
    /\ pc = "fill"
    /\ fill_i <= Len(results)
    /\ results[fill_i].path # NoPath
    /\ clips_metadata' = AppendEntry(clips_metadata, results[fill_i])
    /\ fill_i' = fill_i + 1
    /\ UNCHANGED <<base_keyword, calls, script, total_duration, pc, segments, task,
                   futures, completed,
                   results, generic>>

\* The entry has no path and the entry before it has one.
FillCopy ==
    /\ pc = "fill"
    /\ fill_i <= Len(results)
    /\ results[fill_i].path = NoPath
    /\ HasNeighbour(results, fill_i)
    /\ results' = CopyNeighbour(results, fill_i)
    /\ clips_metadata' = AppendEntry(clips_metadata, results'[fill_i])
    /\ fill_i' = fill_i + 1
    /\ UNCHANGED <<base_keyword, calls, script, total_duration, pc, segments, task,
                   futures, completed,
                   generic>>

\* The entry has no path and there is nothing to copy: the generic "nature"
\* fetch succeeds.
FillGenericOk ==
    /\ pc = "fill"
    /\ fill_i <= Len(results)
    /\ results[fill_i].path = NoPath
    /\ ~HasNeighbour(results, fill_i)
    /\ generic' = Append(generic, [index |-> fill_i - 1, ok |-> TRUE])
    /\ results' = TakeGeneric(results, fill_i)
    /\ clips_metadata' = AppendEntry(clips_metadata, results'[fill_i])
    /\ fill_i' = fill_i + 1
    /\ UNCHANGED <<base_keyword, calls, script, total_duration, pc, segments, task,
                   futures, completed>>

\* variant: the exception of the generic fetch is caught, the entry keeps
\* path None and the loop goes on
FillGenericSwallow ==
    /\ pc = "fill"
    /\ fill_i <= Len(results)
    /\ results[fill_i].path = NoPath
    /\ ~HasNeighbour(results, fill_i)
    /\ generic' = Append(generic, [index |-> fill_i - 1, ok |-> FALSE])
    /\ clips_metadata' = AppendEntry(clips_metadata, results[fill_i])
    /\ fill_i' = fill_i + 1
    /\ UNCHANGED <<base_keyword, calls, script, total_duration, pc, segments, task,
                   futures, completed,
                   results>>

\* The same, and the generic fetch raises: nothing catches the exception, so
\* it leaves get_clips_for_script.
FillGenericRaise ==
    /\ pc = "fill"
    /\ fill_i <= Len(results)
    /\ results[fill_i].path = NoPath
    /\ ~HasNeighbour(results, fill_i)
    /\ generic' = Append(generic, [index |-> fill_i - 1, ok |-> FALSE])
    /\ pc' = "raised"
    /\ UNCHANGED <<base_keyword, calls, script, total_duration, segments, task, futures, completed,
                   results, fill_i, clips_metadata>>

\* return clips_metadata
Return ==
    /\ pc = "fill"
    /\ fill_i > Len(results)
    /\ pc' = "returned"
    /\ UNCHANGED <<base_keyword, calls, script, total_duration, segments, task, futures, completed,
                   results, fill_i, clips_metadata, generic>>

\* ======================================================= render_final_video
\* bounds of the render inputs
MaxClock == 3
MaxRenders == 2
MaxAudio == 1
MaxClips == 2
MaxClipDuration == 1

\* _cleanup_old_videos(FINAL_DIR, keep=3)
KeepVideos == 3

\* FINAL_DIR / f"final_video_{timestamp}.mp4"
FinalName(t) == <<"final_video", t>>

\* an output path given by the caller, outside the final_video_* names
CustomPath == <<"custom">>

FinalNames == {FinalName(t) : t \in 0..MaxClock}

OutputPaths == FinalNames \cup {CustomPath}

NoFile == [state |-> "absent", mtime |-> 0]

\* the file at path p is written now: its modification time is later than
\* that of every other file.  Only the order of the modification times is
\* kept: the time of a file is its rank among the files there are, and no two
\* writes give the same one.
Existing(fs) == {p \in DOMAIN fs : fs[p].state # "absent"}

Ranked(fs) ==
    [p \in DOMAIN fs |->
        IF fs[p].state = "absent" THEN NoFile
        ELSE [state |-> fs[p].state,
              mtime |-> 1 + Cardinality({q \in Existing(fs) :
                                            fs[q].mtime < fs[p].mtime})]]

Written(fs, p, st) ==
    Ranked([fs EXCEPT ![p] = [state |-> st,
                              mtime |-> Cardinality(Existing(fs)) + 1]])

\* _cleanup_old_videos has logged nothing
NoCleanup == [removed |-> {}, failed |-> FALSE]

\* the handles: the AudioFileClip, and the VideoFileClip of the k-th item
AudioHandle == <<"audio">>
ClipHandle(k) == <<"clip", k>>

RECURSIVE SeqsUpTo(_, _)
SeqsUpTo(S, n) ==
    IF n = 0 THEN {<<>>}
    ELSE SeqsUpTo(S, n - 1) \cup
         {Append(q, x) : q \in {r \in SeqsUpTo(S, n - 1) : Len(r) = n - 1}, x \in S}

\* video_source: a single path, or a list of {"path", "duration"} dicts, of
\* which the durations are kept
VideoSources ==
    {[single |-> TRUE, items |-> <<>>]} \cup
    {[single |-> FALSE, items |-> q] : q \in SeqsUpTo(0..MaxClipDuration, MaxClips)}

NoSource == [single |-> TRUE, items |-> <<>>]

\* no call of render_final_video is made
RenderOff ==
    /\ rpc = "off"
    /\ clock = 0
    /\ files = [p \in OutputPaths |-> NoFile]
    /\ renders = 0
    /\ video_source = NoSource
    /\ output_path = CustomPath
    /\ audio_clip = FALSE
    /\ audio_duration = 0
    /\ video_clips = <<>>
    /\ clips_to_close = <<>>
    /\ final_duration = 0
    /\ open = {}
    /\ outcome = "none"
    /\ cleanup_log = NoCleanup

\* before the first call: the final directory holds complete outputs of
\* earlier runs, modified in the order of their names
RenderInit ==
    /\ rpc = "idle"
    /\ clock \in 0..MaxClock
    /\ \E old \in SUBSET {t \in 0..MaxClock : t <= clock} :
           files = Ranked([p \in OutputPaths |->
                              IF \E t \in old : p = FinalName(t)
                              THEN [state |-> "complete",
                                    mtime |-> CHOOSE t \in old : p = FinalName(t)]
                              ELSE NoFile])
    /\ renders = 0
    /\ video_source = NoSource
    /\ output_path = CustomPath
    /\ audio_clip = FALSE
    /\ audio_duration = 0
    /\ video_clips = <<>>
    /\ clips_to_close = <<>>
    /\ final_duration = 0
    /\ open = {}
    /\ outcome = "none"
    /\ cleanup_log = NoCleanup

\* the handles the finally block closes: audio_clip if it is set, and the
\* clips of clips_to_close
ClosedByFinally(hasAudio, toClose) ==
    (IF hasAudio THEN {AudioHandle} ELSE {}) \cup
    {toClose[j].handle : j \in 1..Len(toClose)}

\* the call is left: its locals are gone
DropLocals ==
    /\ video_source' = NoSource
    /\ audio_clip' = FALSE
    /\ audio_duration' = 0
    /\ video_clips' = <<>>
    /\ clips_to_close' = <<>>
    /\ final_duration' = 0

\* an exception inside the try block: logged, re-raised, and the finally
\* block runs on the handles `toClose`; `op` is the set of open handles at
\* the raise
Abort(op, toClose) ==
    /\ open' = op \ ClosedByFinally(audio_clip, toClose)
    /\ outcome' = "raised"
    /\ rpc' = "idle"
    /\ renders' = renders + 1
    /\ DropLocals

\* lines 40-51: the audio file check, the default output path, the empty
\* lists.  A missing audio file raises before the try block.
RenderEnter ==
    /\ rpc = "idle"
    /\ renders < MaxRenders
    /\ \E is_file \in BOOLEAN, src \in VideoSources, explicit \in BOOLEAN :
          IF ~is_file
          THEN /\ outcome' = "raised"
               /\ renders' = renders + 1
               /\ open' = {}
               /\ UNCHANGED <<rpc, video_source, output_path, audio_clip,
                              audio_duration, video_clips, clips_to_close,
                              final_duration>>
          ELSE /\ video_source' = src
               /\ output_path' = IF explicit THEN CustomPath ELSE FinalName(clock)
               /\ audio_clip' = FALSE
               /\ audio_duration' = 0
               /\ video_clips' = <<>>
               /\ clips_to_close' = <<>>
               /\ final_duration' = 0
               /\ open' = {}
               /\ outcome' = "none"
               /\ rpc' = "load_audio"
               /\ UNCHANGED renders
    /\ cleanup_log' = NoCleanup
    /\ UNCHANGED <<clock, files>>

\* lines 55-56: AudioFileClip(...) opens the audio, or raises
LoadAudio ==
    /\ rpc = "load_audio"
    /\ \/ \E d \in 1..MaxAudio :
             /\ audio_clip' = TRUE
             /\ audio_duration' = d
             /\ open' = open \cup {AudioHandle}
             /\ rpc' = "prepare"
             /\ UNCHANGED <<renders, outcome, video_source, video_clips,
                            clips_to_close, final_duration>>
       \/ Abort(open, clips_to_close)
    /\ UNCHANGED <<clock, files, output_path, cleanup_log>>

\* the target durations of the _prepare_clip calls: audio_duration for a
\* single path, item["duration"] for each item of a list
Targets ==
    IF video_source.single THEN <<audio_duration>> ELSE video_source.items

\* _prepare_clip: the clip is looped if shorter than the target, then
\* subclipped(0, target_duration): its duration is the target
PreparedDuration(target) == target

\* lines 60 and 65-66: the next _prepare_clip call.  VideoFileClip(...) raises
\* (nothing opened), or a later step of _prepare_clip raises (the opened clip
\* is returned to nobody), or the prepared clip joins video_clips.
PrepareClip ==
    /\ rpc = "prepare"
    /\ Len(video_clips) < Len(Targets)
    /\ LET k == Len(video_clips) + 1
       IN  \/ Abort(open, clips_to_close)
           \/ Abort(open \cup {ClipHandle(k)}, clips_to_close)
           \/ /\ video_clips' = Append(video_clips,
                     [handle |-> ClipHandle(k),
                      duration |-> PreparedDuration(Targets[k])])
              /\ open' = open \cup {ClipHandle(k)}
              /\ UNCHANGED <<rpc, renders, outcome, video_source, audio_clip,
                             audio_duration, clips_to_close, final_duration>>
    /\ UNCHANGED <<clock, files, output_path, cleanup_log>>

RECURSIVE SumClipDurations(_)
SumClipDurations(clips) ==
    IF clips = <<>> THEN 0
    ELSE Head(clips).duration + SumClipDurations(Tail(clips))

\* variant: a concatenation shorter than the audio is left as it is
ReconcileTrimOnly(concat, audio) == IF concat > audio THEN audio ELSE concat

\* lines 76-80: subclipped(0, audio_duration) if longer, Loop(duration=
\* audio_duration) if shorter
Reconcile(concat, audio) ==
    IF concat > audio THEN audio
    ELSE IF concat < audio THEN audio
    ELSE concat

\* lines 68-82: clips_to_close.extend(video_clips), concatenate_videoclips
\* (which raises on an empty list), the reconciliation with the audio
Stitch ==
    /\ rpc = "prepare"
    /\ Len(video_clips) = Len(Targets)
    /\ IF video_clips = <<>>
       THEN Abort(open, clips_to_close \o video_clips)
       ELSE /\ clips_to_close' = clips_to_close \o video_clips
            /\ final_duration' =
                   Reconcile(SumClipDurations(video_clips), audio_duration)
            /\ rpc' = "encode"
            /\ UNCHANGED <<open, outcome, renders, video_source, audio_clip,
                           audio_duration, video_clips>>
    /\ UNCHANGED <<clock, files, output_path, cleanup_log>>

\* lines 92-93: write_videofile(str(output_path)) starts: the encoder creates
\* or truncates the file at output_path and writes into it
EncodeBegin ==
    /\ rpc = "encode"
    /\ files' = Written(files, output_path, "partial")
    /\ rpc' = "encoding"
    /\ UNCHANGED <<clock, renders, video_source, output_path, audio_clip,
                   audio_duration, video_clips, clips_to_close, final_duration,
                   open, outcome, cleanup_log>>

\* what write_videofile leaves when it returns without raising: a well-formed
\* container, or one that does not play (recover_video.py exists for these)
EncodedStates == {"complete", "corrupt"}

\* lines 92-102: write_videofile ends.  It returned: the file is as the
\* encoder left it and final_path is set from output_path, nothing looks at
\* the file.  Or it raised: the file stays as far as it was written.
EncodeEnd ==
    /\ rpc = "encoding"
    /\ \/ /\ \E st \in EncodedStates :
                files' = [files EXCEPT ![output_path].state = st]
          /\ rpc' = "cleanup"
          /\ UNCHANGED <<open, outcome, renders, video_source, audio_clip,
                         audio_duration, video_clips, clips_to_close,
                         final_duration>>
       \/ /\ UNCHANGED files
          /\ Abort(open, clips_to_close)
    /\ UNCHANGED <<clock, output_path, cleanup_log>>

\* directory.glob("final_video_*.mp4")
FinalVideos(fs) == {p \in FinalNames : fs[p].state # "absent"}

\* variant: sorted without reverse=True, oldest first
SortedOldestFirst(fs) ==
    LET S == FinalVideos(fs)
    IN  {q \in [1..Cardinality(S) -> S] :
            /\ \A i, j \in DOMAIN q : i # j => q[i] # q[j]
            /\ \A i, j \in DOMAIN q : i < j => fs[q[i]].mtime <= fs[q[j]].mtime}

\* the order sorted(..., key=st_mtime, reverse=True) gives: latest first
SortedByMtime(fs) ==
    LET S == FinalVideos(fs)
    IN  {q \in [1..Cardinality(S) -> S] :
            /\ \A i, j \in DOMAIN q : i # j => q[i] # q[j]
            /\ \A i, j \in DOMAIN q : i < j => fs[q[i]].mtime >= fs[q[j]].mtime}

\* the files after f.unlink() on the first n files of files[keep:]
Unlinked(order, n) == {order[i] : i \in (KeepVideos + 1)..(KeepVideos + n)}

AfterUnlinks(fs, order, n) ==
    [p \in OutputPaths |-> IF p \in Unlinked(order, n) THEN NoFile ELSE fs[p]]

\* the number of files in files[keep:]
Excess(order) == IF Len(order) > KeepVideos THEN Len(order) - KeepVideos ELSE 0

\* lines 102-110 and the finally block: _cleanup_old_videos deletes the files
\* after the first `keep` in order, stopping at the first unlink that raises
\* (the exception is caught); then the handles are closed and the path is
\* returned
CleanupAndReturn ==
    /\ rpc = "cleanup"
    /\ \E order \in SortedByMtime(files) :
          \E n \in 0..Excess(order) :
              /\ files' = Ranked(AfterUnlinks(files, order, n))
              /\ cleanup_log' = [removed |-> Unlinked(order, n),
                                 failed |-> n < Excess(order)]
    /\ open' = open \ ClosedByFinally(audio_clip, clips_to_close)
    /\ outcome' = "returned"
    /\ rpc' = "idle"
    /\ renders' = renders + 1
    /\ DropLocals
    /\ UNCHANGED <<clock, output_path>>

\* a second passes
Tick ==
    /\ rpc # "off"
    /\ clock < MaxClock
    /\ clock' = clock + 1
    /\ UNCHANGED <<rpc, files, renders, video_source, output_path, audio_clip,
                   audio_duration, video_clips, clips_to_close, final_duration,
                   open, outcome, cleanup_log>>

\* ========================================================= _download_file
MaxChunks == 3
MaxByte == 2

\* a chunk of iter_content: no byte (a keep-alive chunk) or one byte
Chunks == {<<>>} \cup {<<b>> : b \in 1..MaxByte}

Bodies == SeqsUpTo(Chunks, MaxChunks)

\* a path: its stem and its suffix
DlOutput == [stem |-> "clip_000", suffix |-> "mp4"]

\* variant: the chunks are written to output_path itself
WithSuffixKept(path, suffix) == path

\* output_path.with_suffix(".tmp")
WithSuffix(path, suffix) == [path EXCEPT !.suffix = suffix]

TmpPath == WithSuffix(DlOutput, "tmp")

DlPaths == {DlOutput, TmpPath}

\* no file, and the file an earlier run left (a finished clip at output_path,
\* the rest of an interrupted download at tmp_path)
NoContent == [origin |-> "none", data |-> <<>>]
OldContent == [origin |-> "old", data |-> <<1>>]

\* the bytes of the chunks q, in order
RECURSIVE Concat(_)
Concat(q) == IF q = <<>> THEN <<>> ELSE Head(q) \o Concat(Tail(q))

\* the whole content the response delivers
Downloaded(body) == [origin |-> "download", data |-> Concat(body)]

\* no call of _download_file is made
DownloadOff ==
    /\ dl_pc = "off"
    /\ dl_body = <<>>
    /\ dl_next = 1
    /\ disk = [p \in DlPaths |-> NoContent]
    /\ dl_before = NoContent

\* _download_file is entered
DownloadInit ==
    /\ dl_pc = "request"
    /\ dl_body \in Bodies
    /\ dl_next = 1
    /\ disk \in [DlPaths -> {NoContent, OldContent}]
    /\ dl_before = disk[DlOutput]

\* lines 166-167: the GET request and raise_for_status, which may raise
DlRequest ==
    /\ dl_pc = "request"
    /\ dl_pc' \in {"open", "raised"}
    /\ UNCHANGED <<dl_body, dl_next, disk, dl_before>>

\* lines 172-173: open(tmp_path, "wb") creates or truncates the file, or raises
DlOpenTmp ==
    /\ dl_pc = "open"
    /\ \/ /\ disk' = [disk EXCEPT ![TmpPath] = [origin |-> "download", data |-> <<>>]]
          /\ dl_pc' = "write"
       \/ /\ dl_pc' = "raised"
          /\ UNCHANGED disk
    /\ UNCHANGED <<dl_body, dl_next, dl_before>>

\* lines 174-176: the next chunk; it is written unless it is empty
DlWriteChunk ==
    /\ dl_pc = "write"
    /\ dl_next <= Len(dl_body)
    /\ disk' = [disk EXCEPT ![TmpPath].data = @ \o dl_body[dl_next]]
    /\ dl_next' = dl_next + 1
    /\ UNCHANGED <<dl_pc, dl_body, dl_before>>

\* lines 174-176: iter_content or fh.write raises; the with block closes the
\* file and the exception leaves _download_file
DlStreamRaises ==
    /\ dl_pc = "write"
    /\ dl_pc' = "raised"
    /\ UNCHANGED <<dl_body, dl_next, disk, dl_before>>

\* os.replace(src, dst): dst becomes src's file and src is gone; nothing
\* happens when both are the same path
Replaced(d, src, dst) ==
    IF src = dst THEN d
    ELSE [d EXCEPT ![dst] = d[src], ![src] = NoContent]

\* lines 182-184: after the last chunk the file is closed and
\* tmp_path.replace(output_path) renames it, or raises
DlRename ==
    /\ dl_pc = "write"
    /\ dl_next > Len(dl_body)
    /\ \/ /\ disk' = Replaced(disk, TmpPath, DlOutput)
          /\ dl_pc' = "returned"
       \/ /\ dl_pc' = "raised"
          /\ UNCHANGED disk
    /\ UNCHANGED <<dl_body, dl_next, dl_before>>

\* ============================== render_final_video: the subtitles overlay
MaxWords == 2
MaxCaptionTime == 1

Texts == {"hello", "HELLO"}

\* str.upper()
Upper(text) == IF text = "hello" THEN "HELLO" ELSE text

\* the entries of a timing file: durations may be zero or negative
WordTimings ==
    [text : Texts, start : 0..MaxCaptionTime, duration : -1..MaxCaptionTime]

\* subtitles_path: None, a path where no file is, a file json.load fails on,
\* a file holding a list of entries
NoSubtitles == [kind |-> "none", word_data |-> <<>>]

Subtitles ==
    {[kind |-> k, word_data |-> <<>>] : k \in {"none", "missing", "unloadable"}}
    \cup {[kind |-> "list", word_data |-> q] : q \in SeqsUpTo(WordTimings, MaxWords)}

\* final_video.with_audio(audio_clip): the background timeline with the audio
\* and no overlay layer
BaseClip(d) == [video |-> d, audio |-> TRUE, composite |-> FALSE, layers |-> <<>>]

\* CompositeVideoClip([final_clip] + subtitle_clips)
Composed(base, clips) == [base EXCEPT !.composite = TRUE, !.layers = clips]

\* variant: the composite is built whenever the timing file exists
ShouldCompositeAlways(clips) == TRUE

\* line 88: if subtitle_clips
ShouldComposite(clips) == clips # <<>>

\* variant: only a negative duration is skipped
KeepsEntryLoose(item) == ~(item.duration < 0)

\* lines 215 and 276: if duration <= 0: continue
KeepsEntry(item) == ~(item.duration <= 0)

\* the TextClip (lines 220-228) or the ImageClip (line 307) of an entry
Overlay(item, textclip) ==
    [via |-> IF textclip THEN "TextClip" ELSE "ImageClip",
     text |-> Upper(item.text), start |-> item.start, duration |-> item.duration]

\* no render reaches the overlay
CaptionsOff ==
    /\ cap_pc = "off"
    /\ subtitles = NoSubtitles
    /\ cap_base = 0
    /\ use_textclip = TRUE
    /\ sub_i = 1
    /\ subtitle_clips = <<>>
    /\ final_clip = BaseClip(0)

\* line 82: final_clip = final_video.with_audio(audio_clip)
CaptionsInit ==
    /\ cap_pc = "check"
    /\ subtitles \in Subtitles
    /\ cap_base \in 1..MaxAudio
    /\ use_textclip = TRUE
    /\ sub_i = 1
    /\ subtitle_clips = <<>>
    /\ final_clip = BaseClip(cap_base)

\* line 85: if subtitles_path and Path(subtitles_path).exists()
CheckPath ==
    /\ cap_pc = "check"
    /\ cap_pc' = IF subtitles.kind \in {"none", "missing"} THEN "done" ELSE "load"
    /\ UNCHANGED <<subtitles, cap_base, use_textclip, sub_i, subtitle_clips,
                   final_clip>>

\* lines 191-196: json.load; on any exception the empty list is returned
LoadJson ==
    /\ cap_pc = "load"
    /\ cap_pc' = IF subtitles.kind = "unloadable" THEN "compose" ELSE "probe"
    /\ UNCHANGED <<subtitles, cap_base, use_textclip, sub_i, subtitle_clips,
                   final_clip>>

\* lines 201-212: the TextClip probe, which chooses between the TextClip loop
\* and _generate_subtitle_clips_pillow
ProbeTextClip ==
    /\ cap_pc = "probe"
    /\ use_textclip' \in BOOLEAN
    /\ cap_pc' = "loop"
    /\ UNCHANGED <<subtitles, cap_base, sub_i, subtitle_clips, final_clip>>

\* lines 210-234 and 271-308: one item of word_data.  It is skipped, or its
\* overlay is appended, or building the overlay raises and the render fails.
CaptionItem ==
    /\ cap_pc = "loop"
    /\ sub_i <= Len(subtitles.word_data)
    /\ LET item == subtitles.word_data[sub_i]
       IN  \/ /\ subtitle_clips' =
                     IF KeepsEntry(item)
                     THEN Append(subtitle_clips, Overlay(item, use_textclip))
                     ELSE subtitle_clips
              /\ sub_i' = sub_i + 1
              /\ UNCHANGED cap_pc
           \/ /\ KeepsEntry(item)
              /\ cap_pc' = "raised"
              /\ UNCHANGED <<sub_i, subtitle_clips>>
    /\ UNCHANGED <<subtitles, cap_base, use_textclip, final_clip>>

\* lines 236 and 310: return subtitle_clips
CaptionsReturn ==
    /\ cap_pc = "loop"
    /\ sub_i > Len(subtitles.word_data)
    /\ cap_pc' = "compose"
    /\ UNCHANGED <<subtitles, cap_base, use_textclip, sub_i, subtitle_clips,
                   final_clip>>

\* lines 88-89: the composite is built if subtitle_clips is not empty
Compose ==
    /\ cap_pc = "compose"
    /\ final_clip' = IF ShouldComposite(subtitle_clips)
                     THEN Composed(final_clip, subtitle_clips)
                     ELSE final_clip
    /\ cap_pc' = "done"
    /\ UNCHANGED <<subtitles, cap_base, use_textclip, sub_i, subtitle_clips>>

\* ================================================ tts_cli: fallback timing
MaxSeconds == 2

\* total_chars = sum(len(w) for w in words)
RECURSIVE TotalChars(_)
TotalChars(ws) == IF ws = <<>> THEN 0 ELSE Len(Head(ws)) + TotalChars(Tail(ws))

\* w_dur = (len(w) / total_chars) * total_duration, as the numerator over the
\* denominator TotalChars(words); start and duration of an entry are
\* numerators over it too
WordDuration(w, total) == Len(w) * total

\* variant: current_time = w_dur
NextTimeAssign(time, w_dur) == w_dur

\* current_time += w_dur
NextTime(time, w_dur) == time + w_dur

\* a WordBoundary event of the stream, as appended by lines 47-51
AnEvent == [start |-> 0, duration |-> 1, text |-> <<"a">>]

\* tts_cli is not run
TimingOff ==
    /\ tts_pc = "off"
    /\ tts_text = <<>>
    /\ events = <<>>
    /\ total_seconds = 0
    /\ words = <<>>
    /\ current_time = 0
    /\ word_boundaries = <<>>

\* lines 20-55: the text is not empty, the stream is over and the audio is
\* written; the stream delivered WordBoundary events or none
TimingInit ==
    /\ tts_pc = "written"
    /\ tts_text \in ShortScripts \ {<<>>}
    /\ events \in {<<>>, <<AnEvent>>}
    /\ total_seconds \in 0..MaxSeconds
    /\ words = <<>>
    /\ current_time = 0
    /\ word_boundaries = events

\* lines 59-69: if not word_boundaries, the audio length is read, the text
\* split and current_time set to 0.0
StartFallback ==
    /\ tts_pc = "written"
    /\ IF word_boundaries = <<>>
       THEN /\ words' = Words(tts_text)
            /\ current_time' = 0
            /\ tts_pc' = "loop"
       ELSE /\ tts_pc' = "save"
            /\ UNCHANGED <<words, current_time>>
    /\ UNCHANGED <<tts_text, events, total_seconds, word_boundaries>>

\* lines 70-78: the next word gets its entry and current_time moves on
TimeWord ==
    /\ tts_pc = "loop"
    /\ Len(word_boundaries) < Len(words)
    /\ LET w == words[Len(word_boundaries) + 1]
           w_dur == IF TotalChars(words) > 0 THEN WordDuration(w, total_seconds)
                    ELSE 0
       IN  /\ word_boundaries' = Append(word_boundaries,
                  [start |-> current_time, duration |-> w_dur, text |-> w])
           /\ current_time' = NextTime(current_time, w_dur)
    /\ UNCHANGED <<tts_pc, tts_text, events, total_seconds, words>>

\* the loop is over
EndFallback ==
    /\ tts_pc = "loop"
    /\ Len(word_boundaries) = Len(words)
    /\ tts_pc' = "save"
    /\ UNCHANGED <<tts_text, events, total_seconds, words, current_time, word_boundaries>>

\* lines 80-82: json.dump(word_boundaries)
SaveTimings ==
    /\ tts_pc = "save"
    /\ tts_pc' = "saved"
    /\ UNCHANGED <<tts_text, events, total_seconds, words, current_time, word_boundaries>>

\* ==================================================== app: the review session
\* most Generate clicks in a session
MaxGenerates == 4

\* final_video_path is None
NoVideo == [audio |-> 0, script |-> 0]

\* the stage at which a pipeline run raises, if it does
Stages == {"tts", "fetch", "render", "none"}

\* _DEFAULTS: the session state of a new session, and after Discard
SessionInit ==
    /\ generates = 0
    /\ audio_file = 0
    /\ audio_path = FALSE
    /\ last_script = 0
    /\ video_path = 0
    /\ final_video_path = NoVideo

\* the generate_btn handler on a valid form: the form is persisted, then
\* _run_generate runs TTS, fetch and render, storing each result as it comes;
\* an exception at `stage` ends the run and is shown by st.error.
\* generate_audio writes the fixed file tts_output.mp3 and can raise after
\* having written it.
Generate ==
    /\ generates < MaxGenerates
    /\ generates' = generates + 1
    /\ last_script' = generates + 1
    /\ \E stage \in Stages :
          /\ audio_file' \in IF stage = "tts" THEN {audio_file, generates + 1}
                              ELSE {generates + 1}
          /\ audio_path' = IF stage = "tts" THEN audio_path ELSE TRUE
          /\ video_path' = IF stage \in {"tts", "fetch"} THEN video_path
                           ELSE generates + 1
          /\ final_video_path' =
                 IF stage = "none"
                 THEN [audio |-> generates + 1, script |-> generates + 1]
                 ELSE final_video_path

\* the Regenerate BG handler (shown with the preview of a final video): new
\* clips for the persisted script, rendered over the stored audio
RegenerateBG ==
    /\ final_video_path # NoVideo
    /\ audio_path
    /\ \E stage \in Stages \ {"tts"} :
          /\ video_path' = IF stage = "fetch" THEN video_path ELSE last_script
          /\ final_video_path' =
                 IF stage = "none"
                 THEN [audio |-> audio_file, script |-> last_script]
                 ELSE final_video_path
    /\ UNCHANGED <<generates, audio_file, audio_path, last_script>>

\* the Discard handler (shown with the preview): the files of AUDIO_DIR,
\* VIDEO_DIR and FINAL_DIR are deleted (a failing unlink is passed over) and
\* every key is reset to its default
Discard ==
    /\ final_video_path # NoVideo
    /\ audio_file' \in {0, audio_file}
    /\ audio_path' = FALSE
    /\ last_script' = 0
    /\ video_path' = 0
    /\ final_video_path' = NoVideo
    /\ UNCHANGED generates

\* ----------------------------------------------------------- specifications
\* calls of get_clips_for_script
Init == FetchInit /\ RenderOff /\ DownloadOff /\ CaptionsOff /\ TimingOff /\ SessionInit

Next ==
    \/ SplitScript /\ UNCHANGED exceptFetch
    \/ \E k \in DOMAIN task : TaskStart(k) /\ UNCHANGED exceptFetch
    \/ \E k \in DOMAIN task : TaskSearch(k) /\ UNCHANGED exceptFetch
    \/ \E k \in DOMAIN task : TaskDownload(k) /\ UNCHANGED exceptFetch
    \/ Collect /\ UNCHANGED exceptFetch
    \/ FillKeep /\ UNCHANGED exceptFetch
    \/ FillCopy /\ UNCHANGED exceptFetch
    \/ FillGenericOk /\ UNCHANGED exceptFetch
    \/ FillGenericRaise /\ UNCHANGED exceptFetch
    \/ Return /\ UNCHANGED exceptFetch

Spec == Init /\ [][Next]_vars

\* the steps after the segmentation: the pool, the requests, gap-filling
NextFetch ==
    \/ \E k \in DOMAIN task : TaskStart(k) /\ UNCHANGED exceptFetch
    \/ \E k \in DOMAIN task : TaskSearch(k) /\ UNCHANGED exceptFetch
    \/ \E k \in DOMAIN task : TaskDownload(k) /\ UNCHANGED exceptFetch
    \/ Collect /\ UNCHANGED exceptFetch
    \/ FillKeep /\ UNCHANGED exceptFetch
    \/ FillCopy /\ UNCHANGED exceptFetch
    \/ FillGenericOk /\ UNCHANGED exceptFetch
    \/ FillGenericRaise /\ UNCHANGED exceptFetch
    \/ Return /\ UNCHANGED exceptFetch

\* calls on the scripts of 2..MaxSentences whole sentences (as many segments
\* at most), with no base keyword: the pool and the requests do not read the
\* text
InitFair ==
    /\ Init
    /\ script \in {JoinSpace(SentenceList(n, OneWordSentence)) : n \in 2..MaxSentences}
    /\ base_keyword = <<>>

\* the calls in which the segmentation ends (the step from "split" to
\* "fetch"), every request returns or times out (timeout=15 and timeout=120),
\* every worker thread runs and the calling thread goes on
FairSpec ==
    /\ InitFair
    /\ [][Next]_vars
    /\ WF_pc(pc = "split" /\ pc' = "fetch")
    /\ WF_vars(NextFetch)

\* calls of render_final_video, one after the other
InitRender == FetchOff /\ RenderInit /\ DownloadOff /\ CaptionsOff /\ TimingOff /\ SessionInit

NextRender ==
    \/ RenderEnter /\ UNCHANGED exceptRender
    \/ LoadAudio /\ UNCHANGED exceptRender
    \/ PrepareClip /\ UNCHANGED exceptRender
    \/ Stitch /\ UNCHANGED exceptRender
    \/ EncodeBegin /\ UNCHANGED exceptRender
    \/ EncodeEnd /\ UNCHANGED exceptRender
    \/ CleanupAndReturn /\ UNCHANGED exceptRender
    \/ Tick /\ UNCHANGED exceptRender

SpecRender == InitRender /\ [][NextRender]_vars

\* a call of _download_file
InitDownload == FetchOff /\ RenderOff /\ DownloadInit /\ CaptionsOff /\ TimingOff /\ SessionInit

NextDownload ==
    \/ DlRequest /\ UNCHANGED exceptDownload
    \/ DlOpenTmp /\ UNCHANGED exceptDownload
    \/ DlWriteChunk /\ UNCHANGED exceptDownload
    \/ DlStreamRaises /\ UNCHANGED exceptDownload
    \/ DlRename /\ UNCHANGED exceptDownload

SpecDownload == InitDownload /\ [][NextDownload]_vars

\* the subtitles overlay of a render
InitCaptions == FetchOff /\ RenderOff /\ DownloadOff /\ CaptionsInit /\ TimingOff /\ SessionInit

NextCaptions ==
    \/ CheckPath /\ UNCHANGED exceptCaptions
    \/ LoadJson /\ UNCHANGED exceptCaptions
    \/ ProbeTextClip /\ UNCHANGED exceptCaptions
    \/ CaptionItem /\ UNCHANGED exceptCaptions
    \/ CaptionsReturn /\ UNCHANGED exceptCaptions
    \/ Compose /\ UNCHANGED exceptCaptions

SpecCaptions == InitCaptions /\ [][NextCaptions]_vars

\* a run of tts_cli from the end of the stream on
InitTiming == FetchOff /\ RenderOff /\ DownloadOff /\ CaptionsOff /\ TimingInit /\ SessionInit

NextTiming ==
    \/ StartFallback /\ UNCHANGED exceptTiming
    \/ TimeWord /\ UNCHANGED exceptTiming
    \/ EndFallback /\ UNCHANGED exceptTiming
    \/ SaveTimings /\ UNCHANGED exceptTiming

SpecTiming == InitTiming /\ [][NextTiming]_vars

\* the clicks of one review session, one handler at a time
InitSession ==
    FetchOff /\ RenderOff /\ DownloadOff /\ CaptionsOff /\ TimingOff /\ SessionInit

NextSession ==
    \/ Generate /\ UNCHANGED exceptSession
    \/ RegenerateBG /\ UNCHANGED exceptSession
    \/ Discard /\ UNCHANGED exceptSession

SpecSession == InitSession /\ [][NextSession]_vars

\* ============================================================== properties
\* get_clips_for_script --------------------------------------------------

\* the parallel fetch is over
FetchOver == pc \in {"fill", "returned", "raised"}

\* segment k's own fetch_clip call got a file
Fetched(k) == futures[k].path # NoPath

SegmentIds == 1..NumSegments

\* the nearest fetched segment before k, and after k
NearestEarlier(k) ==
    CHOOSE j \in 1..(k - 1) : Fetched(j) /\ \A m \in (j + 1)..(k - 1) : ~Fetched(m)

NearestLater(k) ==
    CHOOSE j \in (k + 1)..NumSegments :
        Fetched(j) /\ \A m \in (k + 1)..(j - 1) : ~Fetched(m)

RECURSIVE SumDurations(_)
SumDurations(meta) ==
    IF meta = <<>> THEN 0 ELSE Head(meta).duration + SumDurations(Tail(meta))

\* C1: for every non-empty script and total_duration > 0 the durations of the
\* returned entries sum to total_duration (numerators over the common
\* denominator total_words: their sum is total_duration * total_words).
C1_DurationsSumToTotal ==
    (pc = "returned" /\ ScriptClean(script) # <<>> /\ total_duration > 0)
        => SumDurations(clips_metadata) = total_duration * DurationDen(script)

\* C2: whenever at least one segment's fetch succeeded the call does not
\* raise and returns one entry per segment, entry k being segment k's.
C2_ShapeKeptWhenSomeFetched ==
    (FetchOver /\ \E k \in SegmentIds : Fetched(k))
        => /\ pc # "raised"
           /\ pc = "returned" =>
                /\ Len(clips_metadata) = NumSegments
                /\ \A k \in SegmentIds :
                       clips_metadata[k].duration = futures[k].duration

\* C3: a failed segment with no fetched earlier segment and some fetched
\* later segment is returned with the path of the nearest fetched later
\* segment (so with only segment 2 of 5 fetched, all five entries hold
\* segment 2's path).
C3_ForwardSearch ==
    pc \in {"returned", "raised"} =>
        \A k \in SegmentIds :
            (/\ ~Fetched(k)
             /\ \A j \in 1..(k - 1) : ~Fetched(j)
             /\ \E j \in (k + 1)..NumSegments : Fetched(j))
                => /\ pc = "returned"
                   /\ clips_metadata[k].path = ClipPath(NearestLater(k) - 1)

\* C4: every appended entry of a failed segment that has a fetched earlier
\* segment holds the path of the nearest fetched earlier segment.
C4_NearestEarlierCopied ==
    \A k \in 1..Len(clips_metadata) :
        (~Fetched(k) /\ \E j \in 1..(k - 1) : Fetched(j))
            => clips_metadata[k].path = ClipPath(NearestEarlier(k) - 1)

\* a returned list of five entries, fetched at python indices 0 and 2 only:
\* index 1 is repaired from 0, and the run 3, 4 from 2
C4_Witness ==
    /\ pc = "returned"
    /\ NumSegments = 5
    /\ {k \in SegmentIds : Fetched(k)} = {1, 3}

\* C5: every entry carries the allotted duration of its own segment;
\* gap-filling changes no duration and no index, and no path of a fetched
\* entry.
C5_OwnDurationKept ==
    /\ \A k \in 1..Len(clips_metadata) :
           /\ clips_metadata[k].duration = WordCount(segments[k]) * total_duration
           /\ Fetched(k) => clips_metadata[k].path = ClipPath(k - 1)
    /\ FetchOver =>
           \A k \in 1..Len(results) :
               /\ results[k].duration = futures[k].duration
               /\ Fetched(k) => results[k].path = futures[k].path

\* a returned gap-filled entry whose duration differs from that of the entry
\* it took its path from
C5_Witness ==
    /\ pc = "returned"
    /\ \E k \in 2..NumSegments :
           /\ ~Fetched(k)
           /\ clips_metadata[k].path = clips_metadata[k - 1].path
           /\ clips_metadata[k].duration # clips_metadata[k - 1].duration

\* C6: when no segment was fetched and the generic fetch failed the call
\* raises and returns nothing; no entry with path None is ever appended or
\* returned.
C6_FatalWhenNothingFetched ==
    /\ (/\ FetchOver
        /\ \A k \in SegmentIds : ~Fetched(k)
        /\ \E c \in 1..Len(generic) : ~generic[c].ok)
           => pc = "raised"
    /\ \A k \in 1..Len(clips_metadata) : clips_metadata[k].path # NoPath

\* several segments, none fetched, the generic fetch failed: raised
C6_Witness ==
    /\ pc = "raised"
    /\ NumSegments >= 2
    /\ \A k \in SegmentIds : ~Fetched(k)
    /\ generic = <<[index |-> 0, ok |-> FALSE]>>

\* C7: whatever the order the fetch calls finished in, the list handed to
\* gap-filling and the list returned hold at position k the result produced
\* for segment k.
C7_SegmentOrder ==
    /\ FetchOver =>
           /\ Len(results) = NumSegments
           /\ \A k \in SegmentIds :
                  /\ results[k].index = k - 1
                  /\ results[k].index = futures[k].index
    /\ pc = "returned" =>
           /\ Len(clips_metadata) = NumSegments
           /\ \A k \in SegmentIds : clips_metadata[k].duration = futures[k].duration

\* five calls that finished in the order 2, 1, 0, 4, 3, and the list returned
C7_Witness ==
    /\ pc = "returned"
    /\ completed = <<2, 1, 0, 4, 3>>

\* render_final_video ----------------------------------------------------

\* a call is between its entry and its exit
Rendering == rpc \in {"load_audio", "prepare", "encode", "encoding", "cleanup"}

C9_AllHandlesClosed ==
    (rpc = "idle" /\ outcome \in {"returned", "raised"}) => open = {}

\* C10: at no point of a render does a half-written file exist at the final
\* output path.
C10_NoPartialFileAtFinalPath ==
    Rendering => files[output_path].state # "partial"

\* C11: when a call raises, at whatever stage, no file that this call wrote
\* is at the final output path afterwards: a call that raises while encoding
\* leaves no half-written file there.
C11_NothingLeftAfterFailure ==
    [][(rpc = "encoding" /\ rpc' = "idle" /\ outcome' = "raised")
           => files'[output_path'].state # "partial"]_vars

\* C12: a call returns a path only when the encoded file at that path is
\* well-formed: an encoded file that does not play is repaired or makes the
\* call raise, it is never returned.
C12_ReturnedOutputIsValid ==
    (rpc = "idle" /\ outcome = "returned") => files[output_path].state # "corrupt"

\* the final_video_*.mp4 files of fs that fewer than n others are later than
MostRecent(fs, n) ==
    {p \in FinalVideos(fs) :
        Cardinality({q \in FinalVideos(fs) : fs[q].mtime > fs[p].mtime}) < n}

\* the step in which a call runs _cleanup_old_videos and returns
ReturnStep == rpc = "cleanup" /\ rpc' = "idle" /\ outcome' = "returned"

\* after the cleanup at most KeepVideos outputs are left, they are the latest
\* modified, and the output just written into the directory is among them
KeptAreLatest ==
    /\ Cardinality(FinalVideos(files')) <= KeepVideos
    /\ FinalVideos(files') = MostRecent(files, KeepVideos)
    /\ output_path \in FinalNames => output_path \in FinalVideos(files')

C20_ZeroDurationLeftOut ==
    rpc = "encode" => \A k \in DOMAIN video_clips : video_clips[k].duration > 0

\* get_clips_for_script: segmentation -------------------------------------

\* the script has been segmented
Segmented == pc \in {"fetch", "fill", "returned", "raised"}

\* the pieces between the sentence ends (. ! ? followed by whitespace)
Pieces == ReSplit(ScriptClean(script))

\* C14: a script of k sentences, each of more than 2 characters, is split
\* into exactly these k sentences, one segment per sentence in the original
\* order, whatever the narration duration.
C14_OneSegmentPerSentence ==
    (Segmented /\ \A k \in DOMAIN Pieces : Len(Strip(Pieces[k])) > 2)
        => segments = Pieces

\* C15 as stated: the segment list is never empty, and when every piece is
\* discarded it is exactly one segment, the whole trimmed script.
C15_FallbackIsWholeScript ==
    Segmented =>
        /\ Len(segments) >= 1
        /\ SelectSeqLong(Pieces) = <<>> => segments = <<ScriptClean(script)>>

\* C15, amended: the segment list is never empty, and when every piece is
\* discarded it is exactly one segment: the whole trimmed script when that is
\* not empty, and the placeholder "..." when the script is blank.
C15_FallbackIsWholeScriptOrDots ==
    Segmented =>
        /\ Len(segments) >= 1
        /\ SelectSeqLong(Pieces) = <<>> =>
               segments = << IF ScriptClean(script) # <<>>
                             THEN ScriptClean(script)
                             ELSE <<".", ".", ".">> >>

\* a script of punctuation and blanks only, kept whole as the one segment
C15_Witness ==
    /\ Segmented
    /\ script = <<".", "\n", ".", " ">>
    /\ segments = << <<".", " ", ".">> >>

\* _download_file --------------------------------------------------------

\* C13: at every moment of a download, and after it however it ended, the
\* file at output_path is what was there before the call or the whole
\* downloaded content, and it is the downloaded content only once the call
\* has returned: bytes written so far are at tmp_path only.
C13_FinalPathUntouchedOrComplete ==
    dl_pc # "off" =>
        /\ disk[DlOutput] \in {dl_before, Downloaded(dl_body)}
        /\ disk[DlOutput].origin = "download" => dl_pc = "returned"
        /\ dl_pc = "returned" => disk[DlOutput] = Downloaded(dl_body)

\* a download that raised after two bytes were written: they are at tmp_path,
\* and the clip of the earlier run is still at output_path
C13_Witness ==
    /\ dl_pc = "raised"
    /\ Len(disk[TmpPath].data) = 2
    /\ Len(Concat(dl_body)) = 3
    /\ disk[DlOutput] = OldContent

\* the subtitles overlay ---------------------------------------------------

\* the entries of q whose duration is positive, in the order of q
PositiveEntries(q) == SelectSeq(q, LAMBDA e : e.duration > 0)

\* text, start and duration of the overlays
Timeline(clips) ==
    [k \in DOMAIN clips |->
        [text |-> clips[k].text, start |-> clips[k].start,
         duration |-> clips[k].duration]]

\* the overlays expected of the entries q
ExpectedTimeline(q) ==
    [k \in DOMAIN PositiveEntries(q) |->
        [text |-> Upper(PositiveEntries(q)[k].text),
         start |-> PositiveEntries(q)[k].start,
         duration |-> PositiveEntries(q)[k].duration]]

\* C16: on the TextClip path and on the Pillow path alike, the overlays
\* generated are those of exactly the entries whose duration is positive, in
\* input order, each with its entry's start and duration; an entry of zero
\* or negative duration gives none.
C16_OverlayPerPositiveEntry ==
    /\ cap_pc = "loop" =>
           Timeline(subtitle_clips) =
               ExpectedTimeline(SubSeq(subtitles.word_data, 1, sub_i - 1))
    /\ (cap_pc \in {"compose", "done"} /\ subtitles.kind = "list") =>
           Timeline(subtitle_clips) = ExpectedTimeline(subtitles.word_data)

\* the Pillow path, a zero-duration entry followed by a positive one: one
\* overlay
C16_Witness ==
    /\ cap_pc = "done"
    /\ ~use_textclip
    /\ Len(subtitles.word_data) = 2
    /\ subtitles.word_data[1].duration = 0
    /\ subtitles.word_data[2].duration = 1
    /\ Len(subtitle_clips) = 1

\* the timing file gives no overlay: there is none, it cannot be loaded, it
\* is empty or it holds degenerate entries only
NoCaptions ==
    \/ subtitles.kind # "list"
    \/ \A k \in DOMAIN subtitles.word_data : subtitles.word_data[k].duration <= 0

\* C17: a render whose timing file gives no overlay builds the composition
\* that a render without subtitles path builds: the background timeline with
\* the audio and no overlay layer.
C17_CaptionsAreAdditive ==
    (cap_pc = "done" /\ NoCaptions) => final_clip = BaseClip(cap_base)

\* a timing file of two degenerate entries, and the plain composition
C17_Witness ==
    /\ cap_pc = "done"
    /\ subtitles.kind = "list"
    /\ Len(subtitles.word_data) = 2
    /\ NoCaptions
    /\ final_clip = BaseClip(cap_base)

\* tts_cli: fallback timing -------------------------------------------------

RECURSIVE SumWordDurations(_)
SumWordDurations(wb) ==
    IF wb = <<>> THEN 0 ELSE Head(wb).duration + SumWordDurations(Tail(wb))

\* C18: when the stream delivered no word boundary, the text has a word and
\* the audio a positive length, the timings written are contiguous: the first
\* word starts at 0, each later word starts where the one before it ends, the
\* starts increase strictly, and the durations sum to the audio length.
C18_FallbackIsContiguous ==
    (/\ tts_pc \in {"save", "saved"}
     /\ events = <<>>
     /\ words # <<>>
     /\ total_seconds > 0)
        => /\ Len(word_boundaries) = Len(words)
           /\ word_boundaries[1].start = 0
           /\ \A k \in 2..Len(word_boundaries) :
                  /\ word_boundaries[k].start =
                         word_boundaries[k - 1].start + word_boundaries[k - 1].duration
                  /\ word_boundaries[k].start > word_boundaries[k - 1].start
           /\ SumWordDurations(word_boundaries) = total_seconds * TotalChars(words)

\* two words of different lengths, timed by the fallback
C18_Witness ==
    /\ tts_pc = "saved"
    /\ events = <<>>
    /\ tts_text = <<"a", " ", "a", "a", "\n">>
    /\ total_seconds = 2
    /\ word_boundaries =
           << [start |-> 0, duration |-> 2, text |-> <<"a">>],
              [start |-> 2, duration |-> 4, text |-> <<"a", "a">>] >>

\* render_final_video: the default output path ------------------------------

\* C22: an invocation given no output path, made after one that was given
\* none either and returned its output, gets another output path than that
\* one: the two do not write the same file.
C22_DefaultPathsDistinct ==
    [][(/\ rpc = "idle"
        /\ rpc' = "load_audio"
        /\ outcome = "returned"
        /\ output_path # CustomPath
        /\ output_path' # CustomPath)
           => output_path' # output_path]_vars

\* get_clips_for_script: keywords and retries ------------------------------

\* re.findall(r'\b\w+\b', sentence): the maximal runs of word characters
\* (of the alphabet, "a" is the only one)
IsWordChar(c) == c = "a"

RunStarts(s) == {i \in 1..Len(s) : IsWordChar(s[i]) /\ (i = 1 \/ ~IsWordChar(s[i - 1]))}

RunEnds(s) == {i \in 1..Len(s) : IsWordChar(s[i]) /\ (i = Len(s) \/ ~IsWordChar(s[i + 1]))}

Runs(s) ==
    [k \in 1..Cardinality(RunStarts(s)) |->
        SubSeq(s, Nth(RunStarts(s), k), Nth(RunEnds(s), k))]

\* the stop-words of the fixed list that the alphabet can spell
StopWords == {<<"a">>}

IsContentWord(w) == w \notin StopWords

\* the snippet of the claim: the first 3 content words (lower-casing changes
\* nothing on this alphabet)
ContentSnippet(segment) == JoinSpace(Take(SelectSeq(Runs(segment), IsContentWord), 3))

\* C21: the keyword searched for a segment is the base keyword followed by
\* the first 3 words of the segment that are not stop-words, without
\* punctuation.
C21_KeywordFromContentWords ==
    \A k \in DOMAIN calls :
        calls[k].attempts > 0
            => calls[k].keyword = Strip(base_keyword \o <<" ">> \o ContentSnippet(segments[k]))

\* C23: when the call returns, every segment whose own fetch failed has had a
\* fetch with the generic keyword made for it.
C23_GenericTriedForEveryFailure ==
    pc = "returned"
        => \A k \in SegmentIds :
               ~Fetched(k) => \E c \in DOMAIN generic : generic[c].index = k - 1

\* C24: a fetch call is reported failed (path None) only after its request
\* was attempted at least twice.
C24_FailedOnlyAfterRetry ==
    \A k \in DOMAIN task :
        (task[k] = "done" /\ ~Fetched(k)) => calls[k].attempts >= 2

\* app: the review session -------------------------------------------------

\* C30: whenever final_video_path is set, the render it names was made from
\* the audio that audio_path names now and from the persisted script and
\* title.
C30_FinalVideoMatchesSession ==
    final_video_path # NoVideo
        => /\ audio_path
           /\ final_video_path.audio = audio_file
           /\ final_video_path.script = last_script

\* get_clips_for_script: requests and workers ------------------------------

\* C25: no request of a fetch call is attempted more than once, a call whose
\* request failed is done with path None and left to gap-filling, and the
\* call of get_clips_for_script ends: it returns its list or raises.
C25_BoundedAndTerminates ==
    /\ [](\A k \in DOMAIN calls : calls[k].attempts <= 1)
    /\ [](pc = "returned" => Len(clips_metadata) = NumSegments)
    /\ <>(pc \in {"returned", "raised"})

\* a call returned although the requests of two of its segments failed
C25_Witness ==
    /\ pc = "returned"
    /\ Cardinality({k \in SegmentIds : ~Fetched(k)}) >= 2
    /\ \A k \in DOMAIN calls : calls[k].attempts = 1

\* variant: the file name does not hold the index
ClipFileShared(i) == [stem |-> <<"clip", 0>>, suffix |-> "mp4"]

\* VIDEO_DIR / f"clip_{i:03d}.mp4" as a path: its stem and its suffix
ClipFile(i) == [stem |-> <<"clip", i>>, suffix |-> "mp4"]

\* the files the fetch for index i writes: tmp_path, and output_path by the
\* rename
WritePaths(i) == {ClipFile(i), WithSuffix(ClipFile(i), "tmp")}

\* C27: the fetch calls that run at the same time write disjoint files, and
\* the generic fetch of gap-filling is made only when every call is done.
C27_NoSharedFileAmongRunning ==
    /\ \A j \in Running : \A k \in Running :
           j # k => WritePaths(j - 1) \cap WritePaths(k - 1) = {}
    /\ generic # <<>> => \A k \in DOMAIN task : task[k] = "done"

\* three calls are downloading at the same time
C27_Witness ==
    /\ pc = "fetch"
    /\ Cardinality({k \in DOMAIN task : task[k] = "download"}) = 3

\* the python index of the clip file a path names
ClipIndexOf(path) == CHOOSE i \in 0..(NumSegments - 1) : path = ClipPath(i)

\* C28: the generic fetch is made at most once in a call, for segment 0 and
\* only when its own fetch failed; a failed segment after the first gets the
\* path of the entry before it, and no entry holds the clip of a later
\* segment.
C28_GenericOnceThenCopyForward ==
    /\ Len(generic) <= 1
    /\ \A c \in DOMAIN generic : generic[c].index = 0 /\ ~Fetched(1)
    /\ \A k \in DOMAIN clips_metadata :
           /\ (k > 1 /\ ~Fetched(k)) => clips_metadata[k].path = clips_metadata[k - 1].path
           /\ clips_metadata[k].path # NoPath
           /\ ClipIndexOf(clips_metadata[k].path) <= k - 1

\* the first segment was repaired by the generic fetch and a later failed
\* segment by the copy
C28_Witness ==
    /\ pc = "returned"
    /\ generic = <<[index |-> 0, ok |-> TRUE]>>
    /\ \E k \in 2..NumSegments : ~Fetched(k) /\ Fetched(k - 1)

\* get_clips_for_script: the grouping ---------------------------------------

\* the segments are the retained sentences in order, none is empty, and when
\* there are several each has the words of the target (8 seconds at the rate
\* of the narration, or at 3 words per second)
OrderKeepingPartition ==
    /\ JoinSpace(segments) = JoinSpace(Sentences(script))
    /\ \A k \in SegmentIds : segments[k] # <<>>
    /\ NumSegments > 1
           => \A k \in SegmentIds :
                  IF total_duration > 0
                  THEN WordCount(segments[k]) * total_duration >= 8 * TotalWords(script)
                  ELSE WordCount(segments[k]) >= 3 * 8

\* the duration allotted to every segment is at least 8 seconds
AllottedEightSeconds ==
    \A k \in SegmentIds :
        SentDuration(segments[k], script, total_duration) >= 8 * DurationDen(script)

\* C29 as stated: the grouping is an order-keeping partition, and with more
\* than one segment every segment is allotted at least 8 seconds (looked at
\* when the segments have been made; they do not change afterwards).
C29_PartitionAndEightSeconds ==
    (pc = "fetch" /\ \A k \in DOMAIN task : task[k] = "queued")
        => /\ OrderKeepingPartition
           /\ NumSegments > 1 => AllottedEightSeconds

\* C29 amended: the same, the 8 seconds only for a narration of positive
\* length.
C29_PartitionAndEightSecondsIfPositive ==
    (pc = "fetch" /\ \A k \in DOMAIN task : task[k] = "queued")
        => /\ OrderKeepingPartition
           /\ (NumSegments > 1 /\ total_duration > 0) => AllottedEightSeconds

\* three sentences in two segments: the trailing sentence, below the target,
\* was merged into the last segment
C29_Witness ==
    /\ pc = "fetch"
    /\ total_duration > 0
    /\ Len(Sentences(script)) = 3
    /\ NumSegments = 2
    /\ segments[2] = Sentences(script)[2] \o <<" ">> \o Sentences(script)[3]

\* C26: at most 3 fetch calls are between their start and their end at any
\* moment, the others are queued, and once submitted all of them get done.
C26_AtMostThreeWorkers ==
    /\ [](Cardinality({k \in DOMAIN task : task[k] \in {"search", "download"}}) <= 3)
    /\ (pc = "fetch") ~> (pc = "fill" /\ \A k \in DOMAIN task : task[k] = "done")

\* three calls running while two are queued
C26_Witness ==
    /\ pc = "fetch"
    /\ Cardinality(Running) = 3
    /\ Cardinality({k \in DOMAIN task : task[k] = "queued"}) = 2

====
